---- MODULE Spec2Model ----
(***************************************************************************)
(* Model of the "Guess Human" game session engine                          *)
(* (src/src/orchestrator.py): GameOrchestrator keeps the session table     *)
(* _sessions, GameEngine.start / GameEngine.step are the two transitions,  *)
(* GuessingAI.decide and QuestionTool.* wrap the replies of the external   *)
(* generation service.                                                     *)
(*                                                                         *)
(* start_game and process_user_answer are `async def` but contain no       *)
(* await: the event loop runs each call to completion before it starts     *)
(* the next one.  Concurrent requests are therefore every order of the     *)
(* atomic actions below.                                                   *)
(***************************************************************************)
EXTENDS Integers, Sequences, FiniteSets, TLC

\* ------------------------------------------------------------------ bounds
\* number of start_game calls in a run (uuid4 values handed out)
MaxGames == 2
\* number of rounds recorded (history.append) in a run, over all games
MaxCalls == 3

\* settings.max_questions as shipped; the environment may override it
DefaultMaxQuestions == 3

\* ------------------------------------------------------- python values
\* A str: `core` is the text without surrounding whitespace, `pad` says
\* whether the text carries surrounding whitespace.
S(c) == [pad |-> FALSE, core |-> c]
P(c) == [pad |-> TRUE, core |-> c]
\* str.strip()
strip(s) == [pad |-> FALSE, core |-> s.core]

\* A JSON value as json.loads returns it, or the absence of a key.
JAbsent == [t |-> "absent", n |-> 0, s |-> S("")]
JNull == [t |-> "null", n |-> 0, s |-> S("")]
JInt(k) == [t |-> "int", n |-> k, s |-> S("")]
JBool(b) == [t |-> "bool", n |-> IF b THEN 1 ELSE 0, s |-> S("")]
JStr(str) == [t |-> "str", n |-> 0, s |-> str]

\* dict.get(key): None when the key is absent
get(v) == IF v.t = "absent" THEN JNull ELSE v

\* truth value of a python object
truthy(v) ==
    CASE v.t \in {"absent", "null"} -> FALSE
      [] v.t \in {"int", "bool"} -> v.n # 0
      [] v.t = "str" -> v.s.pad \/ v.s.core # ""

\* isinstance(v, int): bool is a subclass of int
isinstance_int(v) == v.t \in {"int", "bool"}

\* isinstance(v, str)
isinstance_str(v) == v.t = "str"

\* ------------------------------------------------ replies of the service
\* What client.models.generate_content gives back to GuessingAI.decide:
\*   raise        the call raises (service unavailable, quota, timeout)
\*   empty        no response object, no text, or JSON that is falsy in
\*                python ({}, null, 0, []): `data or {"decision": "use_tool"}`
\*   unparseable  text that json.loads rejects
\*   nonobject    truthy JSON that is no object: [1], "x", 5
\*   object       a JSON object with the three keys present or absent
DReply(kind, decision, guess, reason) ==
    [kind |-> kind, decision |-> decision, guess |-> guess, reason |-> reason]

DecideReplies ==
    { DReply("raise", JAbsent, JAbsent, JAbsent),
      DReply("empty", JAbsent, JAbsent, JAbsent),
      DReply("unparseable", JAbsent, JAbsent, JAbsent),
      DReply("nonobject", JAbsent, JAbsent, JAbsent),
      DReply("object", JStr(S("respond")), JInt(0), JStr(S("why"))),
      DReply("object", JStr(S("respond")), JInt(2), JStr(S("why"))),
      DReply("object", JStr(S("respond")), JInt(7), JAbsent),
      DReply("object", JStr(S("respond")), JAbsent, JAbsent),
      DReply("object", JStr(S("respond")), JStr(S("0")), JAbsent),
      DReply("object", JStr(S("respond")), JBool(FALSE), JAbsent),
      DReply("object", JStr(P("respond")), JInt(0), JAbsent),
      DReply("object", JStr(S("use_tool")), JAbsent, JAbsent),
      DReply("object", JStr(S("maybe")), JInt(7), JStr(S("why"))),
      DReply("object", JInt(5), JAbsent, JAbsent) }

\* What generate_content gives back to the QuestionTool methods: the same
\* kinds, an object carrying the list under "questions" / "answers".
LReply(kind, items) == [kind |-> kind, items |-> items]

\* replies that carry a usable list (with a padded and a non-string item),
\* or the call raises
InitialQuestionReplies ==
    { LReply("raise", <<>>),
      LReply("object", <<JStr(P("q0")), JStr(S("q0")), JInt(1), JStr(S("q0")),
                         JStr(S("q0")), JStr(S("q0"))>>) }

NewQuestionReplies ==
    { LReply("raise", <<>>),
      LReply("object", <<JInt(1), JStr(P("q1"))>>) }

CandidateReplies ==
    { LReply("raise", <<>>),
      LReply("object", <<JStr(S("a1")), JInt(3), JStr(P("a2")),
                         JStr(S("a3")), JStr(S("a4"))>>) }

\* every shape of reply generate_ai_candidates handles: no text, text that
\* is no JSON, JSON that is no object, an object with too few strings, with
\* no string at all, with exactly three, and the longer list above
AnyCandidateReplies ==
    CandidateReplies \cup
    { LReply("empty", <<>>), LReply("unparseable", <<>>), LReply("nonobject", <<>>),
      LReply("object", <<>>),
      LReply("object", <<JStr(S("a1")), JStr(S("a2"))>>),
      LReply("object", <<JInt(1), JBool(TRUE), JNull, JInt(2)>>),
      LReply("object", <<JStr(S("a1")), JStr(S("a2")), JStr(S("a3"))>>) }

\* the replies to decide that take each branch of step once
FewDecideReplies ==
    { dr \in DecideReplies :
        \/ dr.kind = "raise"
        \/ dr.kind = "object" /\ dr.decision = JStr(S("respond")) /\ dr.guess \in {JInt(0), JInt(2)}
        \/ dr.kind = "object" /\ dr.decision = JStr(S("use_tool")) }

UserAnswers == { S("human") }

\* ----------------------------------------------------------- GuessingAI
CouldNotParse == "Could not parse; ask another question."

\* what decide returns: a dict (its three keys present or absent) or
\* some other python object
Dict(decision, guess, reason) ==
    [dict |-> TRUE, decision |-> decision, guess |-> guess, reason |-> reason]
NonDict == [dict |-> FALSE, decision |-> JAbsent, guess |-> JAbsent, reason |-> JAbsent]

UseToolDict == Dict(JStr(S("use_tool")), JAbsent, JAbsent)

\* GuessingAI.decide, for a reply that did not raise
decide(reply) ==
    CASE reply.kind = "unparseable" ->
            Dict(JStr(S("use_tool")), JAbsent, JStr(S(CouldNotParse)))
      [] reply.kind = "empty" -> UseToolDict
      [] reply.kind = "nonobject" -> NonDict
      [] reply.kind = "object" ->
            IF reply.decision.t = "absent" /\ reply.guess.t = "absent"
               /\ reply.reason.t = "absent"
            THEN UseToolDict
            ELSE Dict(reply.decision, reply.guess, reply.reason)

\* --------------------------------------------------------- QuestionTool
FallbackInitialQuestion ==
    S("In one sentence, how would you approach solving an unfamiliar problem?")
FallbackNewQuestion ==
    S("Give one sentence describing a subtle preference you have in daily life.")
FallbackCandidates ==
    << S("I would choose a practical option based on available data."),
       S("My response depends on optimizing for clear objectives and constraints."),
       S("I would consider trade-offs and select the most consistent approach.") >>

\* [x.strip() for x in (data.get(key) or []) if isinstance(x, str)]; a reply
\* that is no object ends in the except branch, which is the empty list here
stripped_strings(reply) ==
    IF reply.kind # "object" THEN <<>>
    ELSE LET strs == SelectSeq(reply.items, isinstance_str)
         IN [i \in 1..Len(strs) |-> strip(strs[i].s)]

\* every value random.choice(qs) can return
random_choice(qs) == { qs[i] : i \in 1..Len(qs) }

\* QuestionTool.generate_initial_question, for a reply that did not raise:
\* the questions it can return
generate_initial_question(reply) ==
    LET qs == stripped_strings(reply)
    IN IF Len(qs) >= 5 THEN random_choice(qs) ELSE {FallbackInitialQuestion}

\* QuestionTool.generate_new_question, for a reply that did not raise
generate_new_question(reply) ==
    LET qs == stripped_strings(reply)
    IN IF Len(qs) >= 1 THEN random_choice(qs) ELSE {FallbackNewQuestion}

\* generate_ai_candidates returning the whole list: answers, not answers[:3]
generate_ai_candidates_untruncated(reply) ==
    LET answers == stripped_strings(reply)
    IN IF Len(answers) >= 3 THEN answers ELSE FallbackCandidates

\* QuestionTool.generate_ai_candidates, for a reply that did not raise
generate_ai_candidates(reply) ==
    LET answers == stripped_strings(reply)
    IN IF Len(answers) >= 3 THEN SubSeq(answers, 1, 3) ELSE FallbackCandidates

\* ----------------------------------------------------------- GameEngine
\* GameState
GameState(game_id, round, max_rounds, history, question, candidates, status) ==
    [game_id |-> game_id, round |-> round, max_rounds |-> max_rounds,
     history |-> history, current_question |-> question,
     ai_candidates |-> candidates, status |-> status]

\* GameEngine.start once both replies are in
start(game_id, max_rounds, first_question, ai_candidates) ==
    GameState(game_id, 1, max_rounds, <<>>, first_question, ai_candidates, "ongoing")

\* step, lines 238: decision.get on a non-dict and .strip() on a truthy
\* non-string raise AttributeError
dec_raises(decision) ==
    \/ ~decision.dict
    \/ truthy(get(decision.decision)) /\ ~isinstance_str(get(decision.decision))

\* dec = (decision.get("decision") or "use_tool").strip()
dec_of(decision) ==
    IF truthy(get(decision.decision))
    THEN strip(get(decision.decision).s)
    ELSE strip(S("use_tool"))

\* the entry step appends to state.history
RoundRecord(state, user_answer, dec, guess, reason) ==
    [question |-> state.current_question, user |-> user_answer,
     ai_candidates |-> state.ai_candidates, decision |-> dec,
     guess |-> guess, reason |-> reason]

\* no append at all
history_append_skipped(state, rec) == state

\* history replaced by the new record alone: state.history = [rec]
history_append_overwrite(state, rec) == [state EXCEPT !.history = <<rec>>]

\* state.history.append(...)
history_append(state, rec) == [state EXCEPT !.history = Append(@, rec)]

\* dec == "respond"
is_respond(dec) == dec = S("respond")

\* winner = "ai" if (isinstance(guess, int) and guess == 0) else "human"
winner_of(guess) == IF isinstance_int(guess) /\ guess.n = 0 THEN "ai" ELSE "human"

\* state.status = "ai_won" if winner == "ai" else "human_won"
status_of(winner) == IF winner = "ai" THEN "ai_won" ELSE "human_won"

\* "guess": int(guess) if isinstance(guess, int) else None
reported_guess(guess) == IF isinstance_int(guess) THEN JInt(guess.n) ELSE JNull

\* (variant: the budget test written with > instead of >=)
budget_exhausted_strict(state) == state.round > state.max_rounds

\* if state.round >= state.max_rounds
budget_exhausted(state) == state.round >= state.max_rounds

\* (variant: the round counter is not advanced)
next_round_same(state, new_question, ai_candidates) ==
    [state EXCEPT !.current_question = new_question,
                  !.ai_candidates = ai_candidates]

\* state.round += 1; state.current_question = ...; state.ai_candidates = ...
next_round(state, new_question, ai_candidates) ==
    [state EXCEPT !.round = @ + 1, !.current_question = new_question,
                  !.ai_candidates = ai_candidates]

\* ----------------------------------------------------- GameOrchestrator
VARIABLES
    max_questions,  \* settings.max_questions, read once at import
    sessions,       \* GameOrchestrator._sessions: game_id -> GameState
    next_uuid,      \* sessions were stored under the uuid4 values 1..next_uuid-1
    res,            \* what the last call returned or raised
    applied,        \* per game_id: the round of every history.append, in order
    completed,      \* per game_id: process_user_answer calls that returned
    finished,       \* per game_id: the status its last transition set, or "none"
    said,           \* the reply GuessingAI.decide got in the last call
    asked           \* what the last call handed to generate_new_question and
                    \* to generate_ai_candidates in step

vars == <<max_questions, sessions, next_uuid, res, applied, completed, finished,
          said, asked>>

GameIds == 1..MaxGames

\* the values a call returns; keys the dict does not carry are JAbsent / "absent"
Outcome(op, fault, game_id, decision, guess, round, is_game_over, winner, reason, question, ai_candidates, oracle) ==
    [op |-> op, fault |-> fault, game_id |-> game_id, decision |-> decision,
     guess |-> guess, round |-> round, is_game_over |-> is_game_over,
     winner |-> winner, reason |-> reason, question |-> question,
     ai_candidates |-> ai_candidates, oracle |-> oracle]

NoOutcome ==
    Outcome("none", "none", 0, S(""), JAbsent, 0, FALSE, "absent", JAbsent,
            S(""), <<>>, <<>>)

\* a call that raised: HTTPException(404) is "not_found", anything else "error"
Raised(op, fault, game_id, oracle) ==
    Outcome(op, fault, game_id, S(""), JAbsent, 0, FALSE, "absent", JAbsent,
            S(""), <<>>, oracle)

\* no call to GuessingAI.decide was made
NoReply == DReply("none", JAbsent, JAbsent, JAbsent)

\* the arguments of the two follow-up requests of step; NoRequest when step
\* made neither
Request(history, question) == [history |-> history, question |-> question]
NoRequest == Request(<<>>, S(""))

\* python's None where a GameState is expected
None == [game_id |-> 0, round |-> 0, max_rounds |-> 0, history |-> <<>>,
         current_question |-> S(""), ai_candidates |-> <<>>, status |-> "None"]

\* (variant: a lookup that makes up a session for an unknown id, as a
\* defaultdict would)
sessions_get_default(store, game_id) ==
    IF game_id \in DOMAIN store THEN store[game_id]
    ELSE [None EXCEPT !.game_id = game_id, !.round = 1, !.max_rounds = 1,
                      !.status = "ongoing"]

\* self._sessions.get(game_id)
sessions_get(store, game_id) ==
    IF game_id \in DOMAIN store THEN store[game_id] ELSE None

\* (variant: the table is rebuilt around the one session)
sessions_put_alone(store, state) == [g \in {state.game_id} |-> state]

\* self._sessions[state.game_id] = state
sessions_put(store, state) ==
    [g \in DOMAIN store \cup {state.game_id} |->
        IF g = state.game_id THEN state ELSE store[g]]

\* (variant: the cleanup after a finished game is left out)
sessions_pop_nothing(store, game_id) == store

\* self._sessions.pop(game_id, None)
sessions_pop(store, game_id) == [g \in DOMAIN store \ {game_id} |-> store[g]]

\* history.append calls so far, over all games
RECURSIVE sum_len(_, _)
sum_len(f, n) == IF n = 0 THEN 0 ELSE Len(f[n]) + sum_len(f, n - 1)
records_so_far == sum_len(applied, MaxGames)

\* str(uuid.uuid4()): a value no session was ever stored under (a value
\* drawn by a start that raised was never stored nor returned)
uuid4 == next_uuid

\* Settings() reads max_questions from the environment as an int with no
\* validation: the shipped value, or a smaller one down to 0.  The table
\* starts empty.
Init ==
    /\ max_questions \in 0..DefaultMaxQuestions
    /\ sessions = <<>>
    /\ next_uuid = 1
    /\ res = NoOutcome
    /\ applied = [g \in GameIds |-> <<>>]
    /\ completed = [g \in GameIds |-> 0]
    /\ finished = [g \in GameIds |-> "none"]
    /\ said = NoReply
    /\ asked = NoRequest

\* GameOrchestrator.start_game (GameEngine.start inlined at its call), for
\* the value game_id that uuid4 returned
start_game_as(game_id, QReplies, CReplies) ==
    /\ next_uuid <= MaxGames
    /\ \E qr \in QReplies :
        IF qr.kind = "raise"
        THEN /\ res' = Raised("start_game", "error", 0, <<"initial_question">>)
             /\ UNCHANGED <<sessions, next_uuid>>
        ELSE \E first_question \in generate_initial_question(qr),
                cr \in CReplies :
            IF cr.kind = "raise"
            THEN /\ res' = Raised("start_game", "error", 0,
                                  <<"initial_question", "ai_candidates">>)
                 /\ UNCHANGED <<sessions, next_uuid>>
            ELSE LET state == start(game_id, max_questions, first_question,
                                    generate_ai_candidates(cr))
                 IN /\ sessions' = sessions_put(sessions, state)
                    /\ next_uuid' = next_uuid + 1
                    /\ res' = Outcome("start_game", "none", state.game_id, S(""),
                                      JAbsent, state.round, FALSE, "absent",
                                      JAbsent, state.current_question,
                                      state.ai_candidates,
                                      <<"initial_question", "ai_candidates">>)
    /\ said' = NoReply
    /\ asked' = NoRequest
    /\ UNCHANGED <<max_questions, applied, completed, finished>>

\* GameOrchestrator.start_game
start_game(QReplies, CReplies) == start_game_as(uuid4, QReplies, CReplies)

\* What one call of GameEngine.step leaves behind: the GameState object as
\* step left it (step mutates it in place, also when it raises), the dict it
\* returned or the fault it raised, the reply decide got, and the arguments
\* it handed to generate_new_question and generate_ai_candidates (<<>> and
\* S("") when it did not call them).
StepResult(state, out, reply, asked_history, asked_question) ==
    [state |-> state, out |-> out, said |-> reply,
     asked_history |-> asked_history, asked_question |-> asked_question]

\* GameEngine.step from line 275 on: the follow-up question and its decoys
step_follow_up(recorded, dr, dec, reason, QReplies, CReplies) ==
    UNION { IF qr.kind = "raise"
            THEN { StepResult(recorded,
                              Raised("process_user_answer", "error", recorded.game_id, <<"decide", "new_question">>),
                              dr, recorded.history, S("")) }
            ELSE UNION { { IF cr.kind = "raise"
                           THEN StepResult(recorded,
                                           Raised("process_user_answer", "error", recorded.game_id, <<"decide", "new_question", "ai_candidates">>),
                                           dr, recorded.history, new_question)
                           ELSE LET next == next_round(recorded, new_question, generate_ai_candidates(cr))
                                IN StepResult(next,
                                              Outcome("process_user_answer", "none", next.game_id, dec, JAbsent, next.round, FALSE, "absent", reason, new_question, next.ai_candidates, <<"decide", "new_question", "ai_candidates">>),
                                              dr, recorded.history, new_question)
                           : cr \in CReplies }
                         : new_question \in generate_new_question(qr) }
            : qr \in QReplies }

\* GameEngine.step for one reply to decide
step_on(state, user_answer, dr, QReplies, CReplies) ==
    IF dr.kind = "raise" \/ dec_raises(decide(dr))
    THEN { StepResult(state, Raised("process_user_answer", "error", state.game_id, <<"decide">>), dr, <<>>, S("")) }
    ELSE
    LET decision == decide(dr)
        dec == dec_of(decision)
        guess == get(decision.guess)
        reason == get(decision.reason)
        recorded == history_append(state, RoundRecord(state, user_answer, dec, guess, reason))
    IN
    IF is_respond(dec)
    THEN LET winner == winner_of(guess)
             over == [recorded EXCEPT !.status = status_of(winner)]
         IN { StepResult(over,
                         Outcome("process_user_answer", "none", over.game_id, dec, reported_guess(guess), over.round, TRUE, winner, reason, S(""), <<>>, <<"decide">>),
                         dr, <<>>, S("")) }
    ELSE IF budget_exhausted(recorded)
    THEN LET over == [recorded EXCEPT !.status = "human_won"]
         IN { StepResult(over,
                         Outcome("process_user_answer", "none", over.game_id, dec, JAbsent, over.round, TRUE, "human", reason, S(""), <<>>, <<"decide">>),
                         dr, <<>>, S("")) }
    ELSE step_follow_up(recorded, dr, dec, reason, QReplies, CReplies)

\* GameEngine.step: everything the call can end in, over the replies of the
\* service
step(state, user_answer, DReplies, QReplies, CReplies) ==
    UNION { step_on(state, user_answer, dr, QReplies, CReplies) : dr \in DReplies }

\* the bookkeeping of one step on game_id: a record was appended iff the
\* history grew; the call completed iff it raised nothing
step_noted(game_id, state, r) ==
    /\ applied' = IF r.state.history # state.history
                  THEN [applied EXCEPT ![game_id] = Append(@, state.round)]
                  ELSE applied
    /\ completed' = IF r.out.fault = "none"
                    THEN [completed EXCEPT ![game_id] = @ + 1]
                    ELSE completed
    /\ finished' = IF r.state.status # "ongoing"
                   THEN [finished EXCEPT ![game_id] = r.state.status]
                   ELSE finished

\* GameOrchestrator.process_user_answer.  step mutates the GameState object
\* held by _sessions, so what it has done before an exception stays in the
\* table.
process_user_answer(game_id, user_answer, DReplies, QReplies, CReplies) ==
    /\ records_so_far < MaxCalls
    /\ UNCHANGED <<max_questions, next_uuid>>
    /\ LET state == sessions_get(sessions, game_id) IN
       IF state = None
       THEN /\ res' = Raised("process_user_answer", "not_found", game_id, <<>>)
            /\ said' = NoReply
            /\ asked' = NoRequest
            /\ UNCHANGED <<sessions, applied, completed, finished>>
       ELSE \E r \in step(state, user_answer, DReplies, QReplies, CReplies) :
            /\ res' = r.out
            /\ said' = r.said
            /\ asked' = Request(r.asked_history, r.asked_question)
            /\ sessions' = IF r.out.fault = "none" /\ r.out.is_game_over
                           THEN sessions_pop(sessions_put(sessions, r.state), game_id)
                           ELSE sessions_put(sessions, r.state)
            /\ step_noted(game_id, state, r)

\* GameEngine.step called by a caller of the engine that keeps the GameState
\* objects start gave it (here: in the table) and hands one to step again,
\* whatever its status; nothing is evicted.
engine_step(game_id, user_answer, DReplies, QReplies, CReplies) ==
    /\ records_so_far < MaxCalls
    /\ game_id \in DOMAIN sessions
    /\ UNCHANGED <<max_questions, next_uuid>>
    /\ \E r \in step(sessions[game_id], user_answer, DReplies, QReplies, CReplies) :
           /\ res' = r.out
           /\ said' = r.said
           /\ asked' = Request(r.asked_history, r.asked_question)
           /\ sessions' = sessions_put(sessions, r.state)
           /\ step_noted(game_id, sessions[game_id], r)

\* every reply GuessingAI.decide can get, the question and candidate
\* generation answering with a usable list or raising
Next ==
    \/ start_game(InitialQuestionReplies, CandidateReplies)
    \/ \E game_id \in GameIds, user_answer \in UserAnswers :
          process_user_answer(game_id, user_answer, DecideReplies,
                              NewQuestionReplies, CandidateReplies)

Spec == Init /\ [][Next]_vars

\* The same program when uuid.uuid4() is not assumed to be fresh: it returns
\* a random value, so any id, one held by a stored session included.
NextAnyUuid ==
    \/ \E game_id \in GameIds :
           start_game_as(game_id, InitialQuestionReplies, CandidateReplies)
    \/ \E game_id \in GameIds, user_answer \in UserAnswers :
           process_user_answer(game_id, user_answer, DecideReplies, NewQuestionReplies, CandidateReplies)

SpecAnyUuid == Init /\ [][NextAnyUuid]_vars

\* GameEngine on its own: start and step called directly
NextEngine ==
    \/ start_game(InitialQuestionReplies, CandidateReplies)
    \/ \E game_id \in GameIds, user_answer \in UserAnswers :
           engine_step(game_id, user_answer, FewDecideReplies, NewQuestionReplies, CandidateReplies)

SpecEngine == Init /\ [][NextEngine]_vars

\* The same program under every shape of reply to the candidates request
NextAnyLists ==
    \/ start_game(InitialQuestionReplies, AnyCandidateReplies)
    \/ \E game_id \in GameIds, user_answer \in UserAnswers :
           process_user_answer(game_id, user_answer, FewDecideReplies, NewQuestionReplies, AnyCandidateReplies)

SpecAnyLists == Init /\ [][NextAnyLists]_vars

\* ------------------------------------------------------------ properties
\* the last call was a process_user_answer that returned
Answered == res.op = "process_user_answer" /\ res.fault = "none"

Last(seq) == seq[Len(seq)]

Respond == S("respond")
UseTool == S("use_tool")

\* C1: no session in the table has status ai_won or human_won; a
\* process_user_answer that returned is_game_over = true has removed its
\* session, and a later process_user_answer with that game_id gets not-found.
C1_TerminalSessionEvicted ==
    /\ \A g \in DOMAIN sessions : sessions[g].status = "ongoing"
    /\ \A g \in GameIds : finished[g] # "none" => g \notin DOMAIN sessions
    /\ (Answered /\ res.is_game_over) =>
          /\ finished[res.game_id] \in {"ai_won", "human_won"}
          /\ res.game_id \notin DOMAIN sessions
    /\ ( /\ res.op = "process_user_answer"
         /\ finished[res.game_id] # "none"
         /\ ~(Answered /\ res.is_game_over) ) => res.fault = "not_found"

\* a call for a game that had ended before got the not-found fault
C1_Witness ==
    /\ res.op = "process_user_answer"
    /\ res.fault = "not_found"
    /\ finished[res.game_id] # "none"

\* C2: while a session is ongoing, 1 <= round <= max_rounds (max_rounds
\* taken from the configuration).
C2_RoundWithinBudget ==
    \A g \in DOMAIN sessions :
        sessions[g].status = "ongoing" =>
            1 <= sessions[g].round /\ sessions[g].round <= sessions[g].max_rounds

\* C3: a respond decision ends the game at any round, and the winner is ai
\* exactly when the guess the oracle gave is the integer 0.
C3_AiWinsExactlyOnIntegerZero ==
    (Answered /\ res.decision = Respond) =>
        /\ res.is_game_over
        /\ res.winner \in {"ai", "human"}
        /\ res.winner = "ai" <=> get(said.guess) = JInt(0)

\* C4: a decision other than respond taken in round max_rounds ends the
\* game: human wins, the round is not advanced, the session is removed and
\* only the decision was asked of the oracle.
C4_BudgetExhaustedHumanWins ==
    ( /\ Answered
      /\ res.decision # Respond
      /\ Last(applied[res.game_id]) = max_questions ) =>
        /\ res.is_game_over
        /\ res.winner = "human"
        /\ finished[res.game_id] = "human_won"
        /\ res.round = max_questions
        /\ res.oracle = <<"decide">>
        /\ res.game_id \notin DOMAIN sessions

\* max_rounds = 1 and use_tool on the only round
C4_Witness ==
    /\ Answered
    /\ res.decision = UseTool
    /\ max_questions = 1
    /\ applied[res.game_id] = <<1>>
    /\ res.is_game_over

\* C5: the round a terminal outcome reports is the number of
\* process_user_answer calls that returned for that game; after k use_tool
\* rounds a respond with an integer guess other than 0 gives winner human in
\* round k+1.
C5_TerminalRoundCountsCalls ==
    (Answered /\ res.is_game_over) =>
        /\ res.round = completed[res.game_id]
        /\ ( /\ res.decision = Respond
             /\ get(said.guess).t = "int"
             /\ get(said.guess).n # 0 ) => res.winner = "human"

\* max_rounds = 3: two rounds that went on, then respond with guess 2
C5_Witness ==
    /\ Answered
    /\ res.is_game_over
    /\ max_questions = 3
    /\ res.decision = Respond
    /\ get(said.guess) = JInt(2)
    /\ applied[res.game_id] = <<1, 2, 3>>
    /\ res.round = 3
    /\ res.winner = "human"

\* C6: process_user_answer with a game_id that is not in the table raises
\* not-found, asks the oracle nothing and leaves the table and every session
\* as they were.
C6_NotFoundMutatesNothing ==
    [][ (res'.op = "process_user_answer" /\ res'.game_id \notin DOMAIN sessions) =>
            /\ res'.fault = "not_found"
            /\ res'.oracle = <<>>
            /\ said' = NoReply
            /\ asked' = NoRequest
            /\ sessions' = sessions
            /\ applied' = applied
            /\ completed' = completed
            /\ finished' = finished ]_vars

\* not-found for an id no session was ever stored under, while another
\* session is in the table
C6_Witness ==
    /\ res.op = "process_user_answer"
    /\ res.fault = "not_found"
    /\ res.game_id >= next_uuid
    /\ DOMAIN sessions # {}

\* C7: a Decide reply that is missing, empty, unparseable or no object
\* carrying a decision never makes process_user_answer raise; the transition
\* goes on as use_tool with the could-not-parse note as reason.
C7_MalformedDecideFallsBack ==
    ( /\ res.op = "process_user_answer"
      /\ \/ said.kind \in {"empty", "unparseable", "nonobject"}
         \/ said.kind = "object" /\ ~isinstance_str(get(said.decision)) ) =>
        /\ res.fault = "none"
        /\ res.decision = UseTool
        /\ res.reason = JStr(S(CouldNotParse))

\* C8: the decision in every RoundRecord and in every outcome is respond or
\* use_tool, and every non-terminal outcome carries use_tool.
C8_DecisionIsRespondOrUseTool ==
    /\ \A g \in DOMAIN sessions :
          \A i \in 1..Len(sessions[g].history) :
              sessions[g].history[i].decision \in {Respond, UseTool}
    /\ Answered => res.decision \in {Respond, UseTool}
    /\ (Answered /\ ~res.is_game_over) => res.decision = UseTool

\* C9: whatever the order of the calls for one game_id, a transition is
\* applied to each round once and in order: no round is skipped or recorded
\* twice.
C9_EachRoundAppliedOnce ==
    \A g \in GameIds : \A i \in 1..Len(applied[g]) : applied[g][i] = i

\* C10: every ongoing session in the table has len(history) = round - 1, also
\* after a call that raised.
C10_HistoryLengthIsRoundMinusOne ==
    \A g \in DOMAIN sessions :
        sessions[g].status = "ongoing" =>
            Len(sessions[g].history) = sessions[g].round - 1

\* C11: when a call of process_user_answer for a stored session ends in a
\* fault because a request to the service failed, the session is exactly as
\* it was before the call: no RoundRecord appended, round, status,
\* current_question and ai_candidates unchanged.
C11_OracleFaultLeavesSessionUnchanged ==
    [][ (res'.op = "process_user_answer" /\ res'.fault = "error")
            => sessions' = sessions ]_vars

\* C12: start_game never replaces or overwrites a stored session, even when
\* the generated id is the id of a session already in the table.
C12_StartNeverOverwrites ==
    [][ res'.op = "start_game"
            => \A g \in DOMAIN sessions :
                   g \in DOMAIN sessions' /\ sessions'[g] = sessions[g] ]_vars

\* C13: every stored session has exactly 3 candidate answers, and every
\* start outcome and every non-terminal outcome carries exactly 3, whatever
\* the reply to the candidates request was.
C13_AlwaysThreeCandidates ==
    /\ \A g \in DOMAIN sessions : Len(sessions[g].ai_candidates) = 3
    /\ (res.op = "start_game" /\ res.fault = "none") => Len(res.ai_candidates) = 3
    /\ (Answered /\ ~res.is_game_over) => Len(res.ai_candidates) = 3

\* a session started on the fallback candidates (the reply was short or
\* malformed) has moved on to a round whose candidates are the first three
\* strings of a longer reply
C13_Witness ==
    /\ Answered /\ ~res.is_game_over
    /\ res.ai_candidates = <<S("a1"), S("a2"), S("a3")>>
    /\ sessions[res.game_id].ai_candidates = res.ai_candidates
    /\ sessions[res.game_id].history[1].ai_candidates = FallbackCandidates

\* C14: GameEngine.step applied to a session whose status is not ongoing
\* signals an invalid-state fault and mutates nothing: history, round,
\* status, question and candidates are as before.
C14_StepRejectsFinishedSession ==
    [][ \A g \in DOMAIN sessions :
            (sessions[g].status # "ongoing" /\ res'.op = "process_user_answer" /\ res'.game_id = g)
                => /\ res'.fault = "invalid_state"
                   /\ g \in DOMAIN sessions'
                   /\ sessions'[g] = sessions[g] ]_vars

\* C15: status is monotonic under any sequence of start_game and
\* process_user_answer calls: once a session has ended as ai_won or human_won
\* its status never changes and no further transition is applied to it; step
\* is only ever handed an ongoing session.
C15_StatusMonotonic ==
    [][ /\ \A g \in DOMAIN sessions : sessions[g].status = "ongoing"
        /\ \A g \in GameIds :
               finished[g] # "none"
                   => /\ finished'[g] = finished[g]
                      /\ applied'[g] = applied[g]
                      /\ completed'[g] = completed[g]
                      /\ g \notin DOMAIN sessions' ]_vars

\* a call for a game that ended as ai_won comes in while another game is
\* under way, and is turned away
C15_Witness ==
    \E g \in GameIds, h \in DOMAIN sessions :
        /\ finished[g] = "ai_won"
        /\ res.op = "process_user_answer" /\ res.game_id = g
        /\ res.fault = "not_found"
        /\ Len(sessions[h].history) >= 1

\* C16: history is append-only.  Across every step the history of a session
\* that stays in the table keeps its old records, in place and in order; and
\* every call of process_user_answer that completes appends exactly one
\* record, which holds the question, the human answer and the 3 candidates
\* that were current when the call began.
C16_HistoryAppendOnly ==
    [][ /\ \A g \in DOMAIN sessions \cap DOMAIN sessions' :
               /\ Len(sessions'[g].history) >= Len(sessions[g].history)
               /\ SubSeq(sessions'[g].history, 1, Len(sessions[g].history)) = sessions[g].history
        /\ \A g \in DOMAIN sessions :
               (res'.op = "process_user_answer" /\ res'.fault = "none" /\ res'.game_id = g)
                   => /\ Len(applied'[g]) = Len(applied[g]) + 1
                      /\ g \in DOMAIN sessions'
                            => /\ Len(sessions'[g].history) = Len(sessions[g].history) + 1
                               /\ Last(sessions'[g].history).question = sessions[g].current_question
                               /\ Last(sessions'[g].history).user \in UserAnswers
                               /\ Last(sessions'[g].history).ai_candidates = sessions[g].ai_candidates
                               /\ Len(Last(sessions'[g].history).ai_candidates) = 3 ]_vars

\* two calls have completed for a session: its first record holds the opening
\* question, its second the follow-up question, and a third question is
\* current
C16_Witness ==
    /\ Answered /\ ~res.is_game_over
    /\ Len(sessions[res.game_id].history) = 2
    /\ sessions[res.game_id].round = 3
    /\ sessions[res.game_id].history[1].question = S("q0")
    /\ sessions[res.game_id].history[2].question = S("q1")
    /\ sessions[res.game_id].history[2].user = S("human")

C18_GuessAbsentOrIndex ==
    LET Index == { JInt(k) : k \in 0..3 }
    IN /\ \A g \in DOMAIN sessions :
              \A i \in 1..Len(sessions[g].history) :
                  sessions[g].history[i].guess \in {JAbsent, JNull} \cup Index
       /\ Answered => res.guess \in {JAbsent, JNull} \cup Index

\* C19: sessions are isolated.  A start_game call, and a
\* process_user_answer call for one game_id whether it returns or raises,
\* leaves every other session of the table in the table and as it was; and
\* the game_id and max_rounds of a stored session never change.
C19_SessionsIsolated ==
    [][ /\ \A g \in DOMAIN sessions :
               (res'.op = "start_game" \/ res'.game_id # g)
                   => g \in DOMAIN sessions' /\ sessions'[g] = sessions[g]
        /\ \A g \in DOMAIN sessions \cap DOMAIN sessions' :
               /\ sessions'[g].game_id = g
               /\ sessions'[g].game_id = sessions[g].game_id
               /\ sessions'[g].max_rounds = sessions[g].max_rounds ]_vars

\* a call for one game raised after its record was appended, while another
\* game, already in its second round, is in the table
C19_Witness ==
    \E g \in DOMAIN sessions, h \in DOMAIN sessions :
        /\ g # h
        /\ res.op = "process_user_answer" /\ res.game_id = g
        /\ res.fault = "error"
        /\ Len(sessions[g].history) = 1
        /\ sessions[h].round = 2

\* C20: a game ends within its round budget.  For max_rounds = N >= 1 at
\* most N process_user_answer calls return for a game_id, and once N have
\* returned the game is over and its session is out of the table, whatever
\* the replies to decide were.
C20_TerminatesWithinBudget ==
    max_questions >= 1 =>
        /\ \A g \in GameIds :
               /\ completed[g] <= max_questions
               /\ completed[g] = max_questions
                      => finished[g] # "none" /\ g \notin DOMAIN sessions
        /\ (Answered /\ completed[res.game_id] = max_questions) => res.is_game_over

\* the third call of a game with max_rounds = 3 returned; decide had said
\* use_tool twice and respond never, and the game is over
C20_Witness ==
    /\ Answered
    /\ max_questions = 3
    /\ completed[res.game_id] = 3
    /\ res.decision = UseTool
    /\ res.is_game_over
    /\ finished[res.game_id] = "human_won"
    /\ res.game_id \notin DOMAIN sessions

====
